---------------------------- MODULE Spec2Model ----------------------------
(***************************************************************************)
(* A model of the rvban VBAN endpoints: the recipient engine               *)
(* (src/src/vban_recipient.rs), the two sender engines                     *)
(* (src/src/vban_sender.rs, src/src/vban_sender_pw.rs) and the framing     *)
(* definitions they share (src/src/lib.rs).                                *)
(*                                                                         *)
(* Time is counted in ticks of 1/TicksPerSec second.  A panic ends the     *)
(* engine: the variable that records it (alive, s_alive) turns FALSE and   *)
(* no further handle() call is possible.                                   *)
(***************************************************************************)
EXTENDS Integers, Sequences, FiniteSets, TLC

VARIABLES
    overflow_checks,  \* build profile: are integer overflow checks compiled in
    \* ---- VbanRecipient (vban_recipient.rs:10-38)
    state,            \* PlayerState: "Idle" | "Playing"
    sink,             \* Option<AlsaSink>: None or the parameters it was opened with
    sample_rate,      \* Option<VBanSampleRates>: None or a table index
    num_channels,     \* Option<u8>
    sample_format,    \* Option<VBanBitResolution>: None or a code 0..7
    stream_name,      \* Option<[u8;16]>: the stream-name filter
    elapsed,          \* ticks since `timer` was set (timer.elapsed())
    decoder,          \* Option<Decoder>: None or the parameters it was built with
    command,          \* Option<Command>: None or the argument list accumulated
    silence,          \* configured prepend silence in ms
    alive,            \* FALSE once a handle() call has panicked
    out,              \* what the last handle() call did (observation only)
    prev_path,        \* how the handle() call before that one ended (observation
                      \* only, kept where the calls are told apart by it)
    \* ---- VbanSender (vban_sender.rs:20-49, vban_sender_pw.rs:12-35)
    s_cfg,            \* the arguments create() accepted
    s_nu_frame,       \* nu_frame : u32, as <<high 16 bits, low 16 bits>>
    s_state,          \* alsa sender only: PlayerState
    s_alive,          \* FALSE once a handle() call has panicked
    s_calls,          \* number of handle() calls made
    s_sends,          \* number of handle() calls that reached the send step
    s_start,          \* nu_frame when this run of the model began
    s_last,           \* frame counter of the last datagram emitted, if any
    s_prev,           \* frame counter of the datagram emitted before that, if any
    s_out,            \* what the last handle() call did (observation only)
    \* ---- calls of the library's functions: the arguments, and what came back
    c_args,           \* the arguments of VbanSender::create
    c_out,            \* what create returned, and the header the sender then emits
    h_in,             \* a VBanHeader
    h_out,            \* its 28 bytes, and the VBanHeader read back from them
    sr_in,            \* a sample-rate byte
    sr_out,           \* the conversions made from it
    w_out,            \* what the calls of AlsaSink::write did
    pw                \* PipewireSource: the channel, the remainder, the bytes moved

rvars == <<state, sink, sample_rate, num_channels, sample_format, stream_name,
           elapsed, decoder, command, silence, alive, out>>
svars == <<s_cfg, s_nu_frame, s_state, s_alive, s_calls, s_sends, s_start,
           s_last, s_prev, s_out>>
lvars == <<c_args, c_out, h_in, h_out, sr_in, sr_out, w_out, pw>>
vars == <<overflow_checks, rvars, prev_path, svars, lvars>>

\* Option<T>: None is the empty sequence, Some(x) the sequence of x alone
None == <<>>
Some(x) == <<x>>
Unwrap(o) == o[1]

(***************************************************************************)
(* Bounds of the model.                                                    *)
(***************************************************************************)
TicksPerSec == 2        \* clock resolution
MaxElapsedSecs == 4     \* elapsed time saturates here
MaxArgs == 2            \* the command's argument list keeps its last MaxArgs
MaxCaptured == 2400     \* bytes the pipewire backend captures in one run
MaxWrites == 3          \* calls of AlsaSink::write on one sink
MaxCalls == 5           \* sender handle() calls per run

MaxElapsed == MaxElapsedSecs * TicksPerSec

(***************************************************************************)
(* Program constants (lib.rs:21-33, 87, 271, 311, 368).                    *)
(***************************************************************************)
VBAN_HEADER_SIZE == 4 + 1 + 1 + 1 + 1 + 16
VBAN_STREAM_NAME_SIZE == 16
VBAN_PROTOCOL_MAX_SIZE == 1464
VBAN_PACKET_COUNTER_BYTES == 4
VBAN_PACKET_HEADER_BYTES == 24
VBAN_DATA_MAX_SIZE == VBAN_PROTOCOL_MAX_SIZE - VBAN_HEADER_SIZE - VBAN_PACKET_COUNTER_BYTES
VBAN_CHANNELS_MAX_NB == 256
VBAN_SAMPLES_MAX_NB == 256
VBAN_PACKET_MAX_SAMPLES == 256
VBAN_PACKET_MAX_LEN_BYTES == VBAN_PACKET_HEADER_BYTES + VBAN_PACKET_COUNTER_BYTES + VBAN_DATA_MAX_SIZE
VBAN_SR_MASK == 31
VBAN_PROTOCOL_MASK == 224
VBAN_BIT_RESOLUTION_MASK == 7
VBAN_CODEC_MASK == 240
OPUS_FRAME_SIZE == 240
RECV_TIMEOUT_SECS == 1
IDLE_TIMEOUT_SECS == 2

VBAN_SRLIST == <<6000, 12000, 24000, 48000, 96000, 192000, 384000,
                 8000, 16000, 32000, 64000, 128000, 256000, 512000,
                 11025, 22050, 44100, 88200, 176400, 352800, 705600>>

VBAN_BIT_RESOLUTION_SIZE == <<1, 2, 3, 4, 4, 8>>

\* x & mask for the masks the code uses (a run of low bits, or of high bits)
LowBits(x, mask) == x % (mask + 1)
HighBits(x, mask) == (x \div (256 - mask)) * (256 - mask)

\* impl From<u8> for VBanSampleRates: the index, or Panics (-1) for 21..31
Panics == 0 - 1
SampleRateFromU8(item) ==
    IF LowBits(item, VBAN_SR_MASK) <= 20 THEN LowBits(item, VBAN_SR_MASK) ELSE Panics

\* impl From<u8> for VBanProtocol
ProtocolFromU8(value) == HighBits(value, VBAN_PROTOCOL_MASK)
VbanProtocolAudio == 0

\* impl From<u8> for VBanBitResolution
BitResolutionFromU8(item) == LowBits(item, VBAN_BIT_RESOLUTION_MASK)
VbanBitfmt16Int == 1

\* impl From<u8> for VBanCodec
CodecFromU8(value) == HighBits(value, VBAN_CODEC_MASK)
VbanCodecPcm == 0
VbanCodecOpus == 192


Min(a, b) == IF a < b THEN a ELSE b

(***************************************************************************)
(* Stream names: sequences of bytes.                                       *)
(***************************************************************************)
\* the 16-byte array a name is copied into (vban_recipient.rs:51-57):
\* the name's bytes followed by zeros
PadName(name) ==
    [i \in 1..VBAN_STREAM_NAME_SIZE |-> IF i <= Len(name) THEN name[i] ELSE 0]

\* VbanRecipient::create, the filter (vban_recipient.rs:44-60) for the argument
\* stream_name : Option<String>; "Fail" when create returns None
FilterFromArg(arg) ==
    IF arg = None THEN [ok |-> TRUE, sn |-> None]
    ELSE IF Len(Unwrap(arg)) > VBAN_STREAM_NAME_SIZE THEN [ok |-> FALSE, sn |-> None]
    ELSE [ok |-> TRUE, sn |-> Some(PadName(Unwrap(arg)))]

IsCont(b) == b >= 128 /\ b <= 191

\* core::str::from_utf8 as called at vban_recipient.rs:161: is s[i..] well-formed UTF-8
RECURSIVE Utf8From(_, _)
Utf8From(s, i) ==
    LET n == Len(s)
        c(k) == i + k <= n /\ IsCont(s[i + k])
    IN  IF i > n THEN TRUE
        ELSE IF s[i] <= 127 THEN Utf8From(s, i + 1)
        ELSE IF s[i] >= 194 /\ s[i] <= 223 THEN c(1) /\ Utf8From(s, i + 2)
        ELSE IF s[i] = 224 THEN c(1) /\ s[i + 1] >= 160 /\ c(2) /\ Utf8From(s, i + 3)
        ELSE IF s[i] = 237 THEN c(1) /\ s[i + 1] <= 159 /\ c(2) /\ Utf8From(s, i + 3)
        ELSE IF s[i] >= 225 /\ s[i] <= 239 THEN c(1) /\ c(2) /\ Utf8From(s, i + 3)
        ELSE IF s[i] = 240 THEN c(1) /\ s[i + 1] >= 144 /\ c(2) /\ c(3) /\ Utf8From(s, i + 4)
        ELSE IF s[i] = 244 THEN c(1) /\ s[i + 1] <= 143 /\ c(2) /\ c(3) /\ Utf8From(s, i + 4)
        ELSE IF s[i] >= 241 /\ s[i] <= 243 THEN c(1) /\ c(2) /\ c(3) /\ Utf8From(s, i + 4)
        ELSE FALSE

IsUtf8(s) == Utf8From(s, 1)

Music == <<77, 117, 115, 105, 99>>
Stream1 == <<83, 116, 114, 101, 97, 109, 49>>
NameMusic == PadName(Music)
NameStream1 == PadName(Stream1)
NameMusik == [NameMusic EXCEPT ![5] = 107]       \* one byte differs
NameMusicTail == [NameMusic EXCEPT ![16] = 33]   \* only the last byte differs
NameNotUtf8 == [NameMusic EXCEPT ![6] = 255]     \* not UTF-8

\* the stream_name arguments given to VbanRecipient::create
TooLongName == [i \in 1..(VBAN_STREAM_NAME_SIZE + 1) |-> 65]
FilterArgs == {None, Some(Music), Some(TooLongName)}

(***************************************************************************)
(* Datagrams.  len is the UDP length; the other fields are the bytes at    *)
(* their wire offsets (meaningful up to len): preamble says whether bytes  *)
(* 0..3 are "VBAN", sr ns ch fmt are bytes 4 5 6 7, name is bytes 8..23.   *)
(* opus says whether the payload is a frame libopus decodes.               *)
(***************************************************************************)
PcmLen == VBAN_HEADER_SIZE + VBAN_PACKET_COUNTER_BYTES + 2 * VBAN_PACKET_MAX_SAMPLES * 2
OpusLen == VBAN_HEADER_SIZE + VBAN_PACKET_COUNTER_BYTES + 200

BasePacket ==
    [len |-> PcmLen, preamble |-> TRUE, sr |-> 3, ns |-> 255, ch |-> 1,
     fmt |-> 1, name |-> NameMusic, opus |-> "ok"]

BaseOpus == [BasePacket EXCEPT !.len = OpusLen, !.ns = 239, !.fmt = 193]

\* packets a sender of this repository could have sent
WellFormedPackets ==
       { [BasePacket EXCEPT !.sr = r, !.ch = c] : r \in {3, 16}, c \in {0, 1} }
    \cup { BaseOpus }

\* packets that differ from a well-formed one in one respect
OddPackets ==
       { [BasePacket EXCEPT !.len = 20] }
    \cup { [BasePacket EXCEPT !.preamble = FALSE] }
    \cup { [BasePacket EXCEPT !.fmt = 0] }
    \cup { [BasePacket EXCEPT !.name = n] :
             n \in {NameStream1, NameMusik, NameMusicTail, NameNotUtf8} }
    \cup { [BaseOpus EXCEPT !.opus = "bad"] }

Packets == WellFormedPackets \cup OddPackets

\* what one handle() call meets: the datagram p, the ticks d that recv_from
\* waited for it, and whether the playback device can be opened
Arrivals ==
       { [p |-> p, d |-> d, dev |-> "ok"] :
             p \in WellFormedPackets, d \in 0..(RECV_TIMEOUT_SECS * TicksPerSec) }
    \cup { [p |-> p, d |-> d, dev |-> "ok"] : p \in OddPackets, d \in {0, 1} }
    \cup { [p |-> p, d |-> 0, dev |-> "fail"] :
             p \in {BasePacket, [BasePacket EXCEPT !.sr = 16]} }


(***************************************************************************)
(* The recipient.  A handle() call is computed on a record r holding the   *)
(* recipient's fields and the call's log:                                  *)
(*   result  "returned" | "panicked"      path   where the call ended      *)
(*   ops     the calls made on the sink and the runs of the external       *)
(*           command, in order; a run records its last argument and the    *)
(*           number of arguments it was given                              *)
(*   fired   the idle timeout branch ran   accepted  line 279 was reached  *)
(*   gap     ticks between the timer's last reset and this one             *)
(***************************************************************************)
Op(name, a, b) == [op |-> name, a |-> a, b |-> b]

\* keep the last MaxArgs elements of an argument list
KeepLast(args) ==
    IF Len(args) <= MaxArgs THEN args ELSE SubSeq(args, Len(args) - MaxArgs + 1, Len(args))

\* cmd.arg(a).output() on Option<Command> (vban_recipient.rs:128-131, 303-306):
\* Command::arg appends to the command's argument list, output() runs it
CommandAfter(cmd, a) ==
    IF cmd = None THEN None ELSE Some(KeepLast(Append(Unwrap(cmd), a)))

\* the log after that run, if there is a command
RunLogged(ops, cmd, a) ==
    IF cmd = None THEN ops ELSE Append(ops, Op(a, Len(Unwrap(CommandAfter(cmd, a))), 0))

\* mutant: the threshold is one second later
TimeoutExpired_Late(st, el) ==
    st = "Playing" /\ (el \div TicksPerSec) > IDLE_TIMEOUT_SECS + 1

\* the condition of the timeout branch (vban_recipient.rs:111);
\* Duration::as_secs is the whole seconds of the elapsed time
TimeoutExpired(st, el) ==
    st = "Playing" /\ (el \div TicksPerSec) > IDLE_TIMEOUT_SECS

\* mutant: the sink is drained and closed but stays bound
SinkAfterTimeout_Kept(snk) == snk

\* the sink after the timeout branch (vban_recipient.rs:114-127)
SinkAfterTimeout(snk) == None

\* mutant: the branch forgets to set the state
TimeoutBranch_StaysPlaying(r) ==
    IF TimeoutExpired(r.state, r.elapsed)
    THEN [r EXCEPT !.sink = SinkAfterTimeout(r.sink),
                   !.ops = RunLogged(
                               IF r.sink = None THEN r.ops
                               ELSE r.ops \o <<Op("drain", 0, 0), Op("release", 0, 0)>>,
                               r.command, "playback_stopped"),
                   !.command = CommandAfter(r.command, "playback_stopped"),
                   !.fired = TRUE]
    ELSE r

\* the timeout branch (vban_recipient.rs:110-132)
TimeoutBranch(r) ==
    IF TimeoutExpired(r.state, r.elapsed)
    THEN [r EXCEPT !.state = "Idle",
                   !.sink = SinkAfterTimeout(r.sink),
                   !.ops = RunLogged(
                               IF r.sink = None THEN r.ops
                               ELSE r.ops \o <<Op("drain", 0, 0), Op("release", 0, 0)>>,
                               r.command, "playback_stopped"),
                   !.command = CommandAfter(r.command, "playback_stopped"),
                   !.fired = TRUE]
    ELSE r

Returned(r, path) == [r EXCEPT !.result = "returned", !.path = path]
Panicked(r, path) == [r EXCEPT !.result = "panicked", !.path = path]

\* opus::Decoder::new(rate, channels) succeeds for the rates libopus supports
OpusRates == {8000, 12000, 16000, 24000, 48000}

\* AlsaSink::init (lib.rs:474-541): every failure of the device is an expect()
\* that panics, the function has no path that returns None; ALSA refuses a
\* channel count of 0.  dev is what the device does: "ok" or "fail".
AlsaSinkInit(dev, channels, rate) ==
    IF dev = "fail" \/ channels = 0
    THEN [res |-> "panic", sink |-> None]
    ELSE [res |-> "some", sink |-> Some([rate |-> rate, channels |-> channels])]

\* the length of the silence buffer (vban_recipient.rs:299)
SilenceLen(rate, ms) == (rate \div 1000) * ms

\* mutant: the state becomes Playing before the device is opened, no silence,
\* no command
IdleBranch_Bare(r, sr, dev) ==
    LET r1 == [r EXCEPT !.sample_rate = Some(sr), !.state = "Playing"]
        opened == AlsaSinkInit(dev, Unwrap(r1.num_channels), VBAN_SRLIST[sr + 1])
    IN  IF opened.res = "panic" THEN Panicked(r1, "panic_sink_init")
        ELSE [r1 EXCEPT
                 !.sink = opened.sink,
                 !.ops = r1.ops \o
                     <<Op("open", VBAN_SRLIST[sr + 1], Unwrap(r1.num_channels))>>]

\* the Idle branch (vban_recipient.rs:280-307), r.state = "Idle"
IdleBranch(r, sr, dev) ==
    LET r1 == [r EXCEPT !.sample_rate = Some(sr)]
        opened == AlsaSinkInit(dev, Unwrap(r1.num_channels), VBAN_SRLIST[sr + 1])
        start(x) == [x EXCEPT !.command = CommandAfter(x.command, "playback_started"),
                              !.ops = RunLogged(x.ops, x.command, "playback_started"),
                              !.state = "Playing"]
    IN  IF r.sink # None THEN start(r)
        ELSE IF opened.res = "panic" THEN Panicked(r1, "panic_sink_init")
        ELSE IF opened.res = "none" THEN Returned(r1, "sink_unavailable")
        ELSE start([r1 EXCEPT
                 !.sink = opened.sink,
                 !.ops = r1.ops \o
                     <<Op("open", VBAN_SRLIST[sr + 1], Unwrap(r1.num_channels)),
                       Op("silence", SilenceLen(VBAN_SRLIST[sr + 1], r1.silence), 0)>>])

\* mutant: the sample rate of the packet is not compared
PlayingBranch_NoReopen(r, sr, dev) == r

\* the Playing branch (vban_recipient.rs:308-315)
PlayingBranch(r, sr, dev) ==
    IF sr # Unwrap(r.sample_rate)
    THEN LET r1 == [r EXCEPT !.sample_rate = Some(sr),
                             !.ops = r.ops \o <<Op("drain", 0, 0)>>]
             opened == AlsaSinkInit(dev, Unwrap(r1.num_channels), VBAN_SRLIST[sr + 1])
         IN  IF opened.res # "some" THEN Panicked(r1, "panic_sink_reopen")
             ELSE [r1 EXCEPT
                 !.sink = opened.sink,
                 !.ops = r1.ops \o
                     <<Op("open", VBAN_SRLIST[sr + 1], Unwrap(r1.num_channels))>>]
    ELSE r

\* vban_recipient.rs:279-317: timer reset, sink lifecycle, write of n samples
Render(r, sr, n, dev) ==
    LET r1 == [r EXCEPT !.accepted = TRUE, !.gap = r.elapsed, !.elapsed = 0]
        r2 == IF r1.state = "Idle" THEN IdleBranch(r1, sr, dev)
              ELSE PlayingBranch(r1, sr, dev)
    IN  IF r2.result # "running" THEN r2
        ELSE Returned([r2 EXCEPT !.ops = r2.ops \o <<Op("write", n, 0)>>],
                      IF r1.state = "Idle" THEN "idle_open"
                      ELSE IF sr # Unwrap(r1.sample_rate) THEN "rate_change"
                      ELSE "playing_write")


\* mutant: a decoder is constructed for every Opus packet
DecodeOpus_Rebuild(r, p, size, sr, num_samples, dev) ==
    LET ch == Unwrap(r.num_channels)
        rate == VBAN_SRLIST[sr + 1]
        r1 == [r EXCEPT !.decoder = Some([rate |-> rate, channels |-> ch])]
        payload == size - (VBAN_PACKET_HEADER_BYTES + VBAN_PACKET_COUNTER_BYTES)
    IN  IF ch \notin {1, 2} THEN Returned(r, "drop_opus_channels")
        ELSE IF rate \notin OpusRates THEN Returned(r, "drop_decoder_new")
        ELSE IF payload = 0 \/ p.opus # "ok" THEN Panicked(r1, "panic_opus_decode")
        ELSE Render(r1, sr, 2 * num_samples, dev)

\* mutant: a missing decoder is constructed only while the state is Idle
DecodeOpus_OnlyIdle(r, p, size, sr, num_samples, dev) ==
    LET ch == Unwrap(r.num_channels)
        rate == VBAN_SRLIST[sr + 1]
        r1 == IF r.decoder = None
              THEN [r EXCEPT !.decoder = Some([rate |-> rate, channels |-> ch])]
              ELSE r
        payload == size - (VBAN_PACKET_HEADER_BYTES + VBAN_PACKET_COUNTER_BYTES)
    IN  IF r.decoder = None /\ ch \notin {1, 2} THEN Returned(r, "drop_opus_channels")
        ELSE IF r.decoder = None /\ (rate \notin OpusRates \/ r.state = "Playing")
        THEN Returned(r, "drop_decoder_new")
        ELSE IF payload = 0 \/ p.opus # "ok" THEN Panicked(r1, "panic_opus_decode")
        ELSE Render(r1, sr, 2 * num_samples, dev)

\* the Opus arm of the decode step (vban_recipient.rs:235-274); size is the
\* number of bytes received, num_samples the header's sample count plus one
DecodeOpus(r, p, size, sr, num_samples, dev) ==
    LET ch == Unwrap(r.num_channels)
        rate == VBAN_SRLIST[sr + 1]
        r1 == IF r.decoder = None
              THEN [r EXCEPT !.decoder = Some([rate |-> rate, channels |-> ch])]
              ELSE r
        payload == size - (VBAN_PACKET_HEADER_BYTES + VBAN_PACKET_COUNTER_BYTES)
    IN  IF r.decoder = None /\ ch \notin {1, 2} THEN Returned(r, "drop_opus_channels")
        ELSE IF r.decoder = None /\ rate \notin OpusRates THEN Returned(r, "drop_decoder_new")
        ELSE IF payload = 0 \/ p.opus # "ok" THEN Panicked(r1, "panic_opus_decode")
        ELSE Render(r1, sr, 2 * num_samples, dev)

\* the PCM arm of the decode step (vban_recipient.rs:207-233)
DecodePcm(r, size, sr, bits_per_sample, dev) ==
    Render(r, sr, (size - (VBAN_PACKET_HEADER_BYTES + VBAN_PACKET_COUNTER_BYTES))
                      \div bits_per_sample, dev)

\* mutant: the names are compared as NUL-terminated strings
NameAccepted_CString(filter, name_incoming) ==
    \/ filter = None
    \/ \A i \in 1..VBAN_STREAM_NAME_SIZE :
          (\A j \in 1..i : Unwrap(filter)[j] # 0) => Unwrap(filter)[i] = name_incoming[i]

\* the stream-name check (vban_recipient.rs:191-199): TRUE when the packet passes
NameAccepted(filter, name_incoming) ==
    filter = None \/ Unwrap(filter) = name_incoming

\* head.num_channels + 1 in u8 arithmetic (vban_recipient.rs:189)
ChannelsPlusOne(b6, checks) ==
    IF b6 + 1 <= 255 THEN b6 + 1 ELSE IF checks THEN Panics ELSE (b6 + 1) % 256

\* the bytes handle() finds in buf after recv_from (vban_recipient.rs:108, 134):
\* buf starts as zeros and receives at most VBAN_PACKET_MAX_LEN_BYTES bytes
RecvSize(p) == Min(p.len, VBAN_PACKET_MAX_LEN_BYTES)
BufByte(p, off, v) == IF off < RecvSize(p) THEN v ELSE 0
HeadName(p) == [i \in 1..VBAN_STREAM_NAME_SIZE |-> BufByte(p, 7 + i, p.name[i])]

\* what handle() does with a received datagram p (vban_recipient.rs:136-321)
Process(r, p, checks, dev) ==
    LET size == RecvSize(p)
        b4 == BufByte(p, 4, p.sr)
        b5 == BufByte(p, 5, p.ns)
        b6 == BufByte(p, 6, p.ch)
        b7 == BufByte(p, 7, p.fmt)
        name_incoming == HeadName(p)
        r1 == [r EXCEPT !.sample_format = Some(BitResolutionFromU8(b7))]
        num_samples == b5 + 1
        fmt == BitResolutionFromU8(b7)
        codec == CodecFromU8(b7)
        sr == SampleRateFromU8(b4)
        chs == ChannelsPlusOne(b6, checks)
        r2 == [r1 EXCEPT !.num_channels = Some(chs)]
    IN  IF ~(p.preamble /\ size >= 4) THEN Returned(r, "not_vban")
        ELSE IF num_samples > VBAN_SAMPLES_MAX_NB THEN Returned(r1, "drop_samples")
        ELSE IF fmt + 1 > Len(VBAN_BIT_RESOLUTION_SIZE) THEN Panicked(r1, "panic_bit_resolution")
        ELSE IF ~IsUtf8(name_incoming) THEN Panicked(r1, "panic_utf8")
        ELSE IF ProtocolFromU8(b4) # VbanProtocolAudio THEN Returned(r1, "drop_protocol")
        ELSE IF codec \notin {VbanCodecPcm, VbanCodecOpus} THEN Returned(r1, "drop_codec")
        ELSE IF VBAN_BIT_RESOLUTION_SIZE[fmt + 1] # 2 THEN Returned(r1, "drop_bits")
        ELSE IF sr = Panics THEN Panicked(r1, "panic_sample_rate")
        ELSE IF b6 > (VBAN_CHANNELS_MAX_NB - 1) % 256 THEN Returned(r1, "drop_channels")
        ELSE IF chs = Panics THEN Panicked(r1, "panic_channels_overflow")
        ELSE IF ~NameAccepted(r2.stream_name, name_incoming) THEN Returned(r2, "drop_name")
        ELSE IF size < VBAN_PACKET_HEADER_BYTES + VBAN_PACKET_COUNTER_BYTES
             THEN Panicked(r2, "panic_slice")
        ELSE IF codec = VbanCodecPcm
             THEN DecodePcm(r2, size, sr, VBAN_BIT_RESOLUTION_SIZE[fmt + 1], dev)
        ELSE DecodeOpus(r2, p, size, sr, num_samples, dev)

\* the recipient's fields and an empty log, at the entry of handle()
Entry ==
    [state |-> state, sink |-> sink, sample_rate |-> sample_rate,
     num_channels |-> num_channels, sample_format |-> sample_format,
     stream_name |-> stream_name, elapsed |-> elapsed, decoder |-> decoder,
     command |-> command, silence |-> silence,
     result |-> "running", path |-> "", ops |-> <<>>,
     fired |-> FALSE, accepted |-> FALSE, gap |-> 0]

NoPacket == [BasePacket EXCEPT !.len = 0 - 1]

\* the fields of r become the recipient's, the log becomes out
Leave(r, p) ==
    /\ state' = r.state
    /\ sink' = r.sink
    /\ sample_rate' = r.sample_rate
    /\ num_channels' = r.num_channels
    /\ sample_format' = r.sample_format
    /\ elapsed' = r.elapsed
    /\ decoder' = r.decoder
    /\ command' = r.command
    /\ alive' = (r.result = "returned")
    /\ out' = [result |-> r.result, path |-> r.path, ops |-> r.ops,
               fired |-> r.fired, accepted |-> r.accepted, gap |-> r.gap,
               entryState |-> state, entryElapsed |-> elapsed,
               entryRate |-> sample_rate, hadCommand |-> (command # None),
               pkt |-> p, calls |-> 1]
    /\ UNCHANGED <<stream_name, silence, overflow_checks, svars, lvars>>

\* the receive step (vban_recipient.rs:134): recv_from returns after d ticks
\* mutant: the timer is set anew by every datagram that arrives, not by the
\* read timeout
Waited_Reset(r, d) ==
    [r EXCEPT !.elapsed = IF d < RECV_TIMEOUT_SECS * TicksPerSec THEN 0
                          ELSE Min(r.elapsed + d, MaxElapsed)]

Waited(r, d) == [r EXCEPT !.elapsed = Min(r.elapsed + d, MaxElapsed)]

RecvTimeout == RECV_TIMEOUT_SECS * TicksPerSec

\* handle() when one of the arrivals A happens within the read timeout
HandleAny(A) ==
    /\ alive
    /\ \E a \in A :
          Leave(Process(Waited(TimeoutBranch(Entry), a.d), a.p, overflow_checks, a.dev),
                a.p)

HandleFrom(A) == HandleAny(A) /\ UNCHANGED prev_path

HandlePacket == HandleFrom(Arrivals)

\* handle() when recv_from times out (vban_recipient.rs:140)
RecvTimedOut ==
    /\ alive
    /\ Leave(Returned(Waited(TimeoutBranch(Entry), RecvTimeout), "recv_timeout"),
             NoPacket)

HandleRecvTimeout == RecvTimedOut /\ UNCHANGED prev_path

\* set_command (vban_recipient.rs:326-328): a fresh Command, no arguments yet
SetCommand ==
    /\ alive
    /\ command' = Some(<<>>)
    /\ UNCHANGED <<state, sink, sample_rate, num_channels, sample_format, stream_name,
                   elapsed, decoder, silence, alive, out, prev_path, overflow_checks,
                   svars, lvars>>

SilenceArgs == {20}

\* VbanRecipient::create (vban_recipient.rs:42-104)
RecipientInit ==
    /\ state = "Idle"
    /\ sink = None
    /\ sample_rate \in {None, Some(3)}    \* the sample-rate hint
    /\ num_channels = None                \* the channel hint
    /\ sample_format = None
    /\ \E arg \in FilterArgs : FilterFromArg(arg).ok /\ stream_name = FilterFromArg(arg).sn
    /\ elapsed = 0
    /\ decoder = None
    /\ command = None
    /\ silence \in SilenceArgs
    /\ alive = TRUE
    /\ out = [result |-> "returned", path |-> "created", ops |-> <<>>,
              fired |-> FALSE, accepted |-> FALSE, gap |-> 0,
              entryState |-> "Idle", entryElapsed |-> 0,
              entryRate |-> None, hadCommand |-> FALSE,
              pkt |-> NoPacket, calls |-> 0]
    /\ prev_path = ""

(***************************************************************************)
(* The senders.  A u32 is the pair <<high 16 bits, low 16 bits>>.          *)
(***************************************************************************)
U16 == 2^16
U32Zero == <<0, 0>>
U32Max == <<U16 - 1, U16 - 1>>

\* n + k modulo 2^32, for a small k
U32Add(n, k) == << (n[1] + ((n[2] + k) \div U16)) % U16, (n[2] + k) % U16 >>
\* does n + k pass 2^32
U32Carries(n, k) == n[1] + ((n[2] + k) \div U16) >= U16
U32Less(a, b) == a[1] < b[1] \/ (a[1] = b[1] /\ a[2] < b[2])

\* mutant: the counter is a u16
NuFramePlusOne_U16(n, checks) == << n[1], (n[2] + 1) % U16 >>

\* self.nu_frame += 1 (vban_sender.rs:236, vban_sender_pw.rs:230): Panics when
\* the addition overflows and overflow checks are compiled in, else it wraps
NuFramePlusOne(n, checks) ==
    IF n[2] + 1 < U16 THEN <<n[1], n[2] + 1>>
    ELSE IF n[1] + 1 < U16 THEN <<n[1] + 1, 0>>
    ELSE IF checks THEN <<Panics, Panics>>
    ELSE U32Zero

SampleRateNotSupported == 21

\* impl Into<u8> for VBanSampleRates (lib.rs:182-209)
SampleRateIntoU8(sr) == IF sr = SampleRateNotSupported THEN Panics ELSE sr

\* mutant: audio_in holds VBAN_PACKET_MAX_SAMPLES samples for every channel
AudioInLen_PerChannel(cfg) ==
    IF cfg.opus THEN OPUS_FRAME_SIZE * cfg.numch ELSE VBAN_PACKET_MAX_SAMPLES * cfg.numch

\* the length of audio_in (vban_sender.rs:147, 166-169; vban_sender_pw.rs:155-161)
AudioInLen(cfg) ==
    IF cfg.opus THEN OPUS_FRAME_SIZE * cfg.numch ELSE VBAN_PACKET_MAX_SAMPLES * 2

\* the length of `encoded` (vban_sender.rs:173-189, vban_sender_pw.rs:165-182);
\* enc is what the Opus encoder returns: 0 for an error, else the frame's bytes,
\* which are never more than the buffer it was given
EncodedLen(cfg, enc) ==
    IF cfg.opus THEN Min(enc, AudioInLen(cfg) * 2) ELSE AudioInLen(cfg) * 2

\* what one handle() call of a sender meets
SenderEnvs ==
    { [dev |-> dv, enc |-> e, connect |-> c, send |-> sd] :
        dv \in {"ok", "fail"}, e \in {0, 200, 2000}, c \in BOOLEAN, sd \in BOOLEAN }

\* VbanSender::handle (vban_sender.rs:143-237, vban_sender_pw.rs:151-231) as a
\* record: how the call ended, whether the send step was reached, the number of
\* datagrams sent, the header's frame counter, the datagram's length, and the
\* sender's fields after the call
SenderHandle(cfg, st, nu, checks, env) ==
    LET end(res, step, sent, len, nu2, st2) ==
            [result |-> res, step |-> step, sent |-> sent, counter |-> nu, len |-> len,
             nu_frame |-> nu2, state |-> st2]
        st1 == IF cfg.kind = "alsa" THEN "Playing" ELSE st
        encoded == EncodedLen(cfg, env.enc)
        total == VBAN_PACKET_HEADER_BYTES + VBAN_PACKET_COUNTER_BYTES + encoded
        next == NuFramePlusOne(nu, checks)
    IN  \* AlsaSource::init (lib.rs:594-634) panics when the device cannot be had
        IF cfg.kind = "alsa" /\ st = "Idle" /\ env.dev = "fail"
        THEN end("panicked", "source_init", 0, 0, nu, st)
        \* PipewireSource::read (lib.rs:777, 786): recv().unwrap() on a closed channel
        ELSE IF cfg.kind = "pw" /\ env.dev = "fail"
        THEN end("panicked", "source_read", 0, 0, nu, st1)
        \* audio_in.len() / self.num_channels
        ELSE IF cfg.numch = 0 THEN end("panicked", "divide_by_zero", 0, 0, nu, st1)
        ELSE IF SampleRateIntoU8(cfg.sr) = Panics
        THEN end("panicked", "sample_rate", 0, 0, nu, st1)
        ELSE IF total > VBAN_PACKET_MAX_LEN_BYTES
        THEN end("returned", "too_long", 0, total, nu, st1)
        ELSE IF next[1] = Panics
        THEN end("panicked", "send", IF env.send THEN 1 ELSE 0, total, nu, st1)
        ELSE end("returned", "send", IF env.send THEN 1 ELSE 0, total, next, st1)

\* one handle() call of the sender
SenderStep ==
    /\ s_alive
    /\ s_calls < MaxCalls
    /\ \E env \in SenderEnvs :
         LET h == SenderHandle(s_cfg, s_state, s_nu_frame, overflow_checks, env)
         IN  /\ s_out' = [result |-> h.result, step |-> h.step, sent |-> h.sent,
                          counter |-> h.counter, len |-> h.len,
                          entry |-> s_nu_frame, sends |-> s_sends,
                          dev |-> env.dev, entryState |-> s_state]
             /\ s_nu_frame' = h.nu_frame
             /\ s_state' = h.state
             /\ s_alive' = (h.result = "returned")
             /\ s_calls' = s_calls + 1
             /\ s_sends' = IF h.step = "send" THEN s_sends + 1 ELSE s_sends
             /\ s_last' = IF h.sent > 0 THEN Some(h.counter) ELSE s_last
             /\ s_prev' = IF h.sent > 0 THEN s_last ELSE s_prev
    /\ UNCHANGED <<s_cfg, s_start, overflow_checks, rvars, prev_path, lvars>>

\* the sample rates an Opus encoder is made for: the pipewire sender matches
\* 12000, 24000 and 48000 Hz (vban_sender_pw.rs:83-91); the alsa sender hands the
\* rate to Encoder::new(..).expect (vban_sender.rs:93), which has 8000, 12000,
\* 16000, 24000 and 48000 Hz
OpusEncoderRates(kind) == IF kind = "pw" THEN {1, 2, 3} ELSE {1, 2, 3, 7, 8}

\* VbanSender::create (vban_sender.rs:53-141, vban_sender_pw.rs:55-147): does it
\* yield a sender for these arguments (16-bit format, a socket that binds)
SenderCreates(cfg) ==
    IF cfg.opus
    THEN /\ cfg.numch \in {1, 2}
         /\ cfg.sr \in OpusEncoderRates(cfg.kind)
    ELSE TRUE

SenderConfigs ==
    { c \in [kind : {"alsa", "pw"}, numch : {0, 1, 2, 3},
             sr : {3, SampleRateNotSupported}, opus : BOOLEAN] : SenderCreates(c) }

\* counters a sender passes through: create() starts at 0
NuFrameStarts == {U32Zero, <<0, U16 - 2>>, <<U16 - 1, U16 - 3>>}

SenderInit ==
    /\ s_cfg \in SenderConfigs
    /\ s_nu_frame \in NuFrameStarts
    /\ s_start = s_nu_frame
    /\ s_state = "Idle"
    /\ s_alive = TRUE
    /\ s_calls = 0
    /\ s_sends = 0
    /\ s_last = None
    /\ s_prev = None
    /\ s_out = [result |-> "created", step |-> "", sent |-> 0, counter |-> U32Zero,
                len |-> 0, entry |-> U32Zero, sends |-> 0,
                dev |-> "ok", entryState |-> "Idle"]

\* a sender that is created and never run
SenderParked ==
    /\ s_cfg = [kind |-> "pw", numch |-> 2, sr |-> 3, opus |-> FALSE]
    /\ s_nu_frame = U32Zero
    /\ s_start = U32Zero
    /\ s_state = "Idle"
    /\ s_alive = TRUE
    /\ s_calls = 0
    /\ s_sends = 0
    /\ s_last = None
    /\ s_prev = None
    /\ s_out = [result |-> "created", step |-> "", sent |-> 0, counter |-> U32Zero,
                len |-> 0, entry |-> U32Zero, sends |-> 0,
                dev |-> "ok", entryState |-> "Idle"]

\* a recipient that is created and never run
RecipientParked ==
    /\ state = "Idle"
    /\ sink = None
    /\ sample_rate = None
    /\ num_channels = None
    /\ sample_format = None
    /\ stream_name = None
    /\ elapsed = 0
    /\ decoder = None
    /\ command = None
    /\ silence = 0
    /\ alive = TRUE
    /\ out = [result |-> "returned", path |-> "created", ops |-> <<>>,
              fired |-> FALSE, accepted |-> FALSE, gap |-> 0,
              entryState |-> "Idle", entryElapsed |-> 0,
              entryRate |-> None, hadCommand |-> FALSE,
              pkt |-> NoPacket, calls |-> 0]
    /\ prev_path = ""

(***************************************************************************)
(* The library's conversions (lib.rs), each applied to arguments drawn in  *)
(* the initial state.                                                      *)
(***************************************************************************)
\* impl Into<u32> for VBanSampleRates (lib.rs:212-239), by enum position
SampleRateIntoU32(sr) ==
    IF sr = SampleRateNotSupported THEN 0
    ELSE <<6000, 12000, 24000, 48000, 96000, 192000, 384000,
           8000, 16000, 32000, 64000, 128000, 256000, 512000,
           11025, 22050, 44100, 88200, 176400, 352800, 705600>>[sr + 1]

\* mutant: 44100 Hz is missing from the match
SampleRateFromU32_No44100(value) ==
    IF value \in {6000, 12000, 24000, 48000, 96000, 192000, 384000}
    THEN CHOOSE i \in 0..6 : SampleRateIntoU32(i) = value
    ELSE SampleRateNotSupported

\* impl From<u32> for VBanSampleRates (lib.rs:241-268): the enum position
SampleRateFromU32(value) ==
    CASE value = 6000 -> 0    [] value = 12000 -> 1    [] value = 24000 -> 2
      [] value = 48000 -> 3   [] value = 96000 -> 4    [] value = 192000 -> 5
      [] value = 384000 -> 6  [] value = 8000 -> 7     [] value = 16000 -> 8
      [] value = 32000 -> 9   [] value = 64000 -> 10   [] value = 128000 -> 11
      [] value = 256000 -> 12 [] value = 512000 -> 13  [] value = 11025 -> 14
      [] value = 22050 -> 15  [] value = 44100 -> 16   [] value = 88200 -> 17
      [] value = 176400 -> 18 [] value = 352800 -> 19  [] value = 705600 -> 20
      [] OTHER -> SampleRateNotSupported

\* mutant: most significant byte first
WriteU32LE_BigEndian(n) == <<n[1] \div 256, n[1] % 256, n[2] \div 256, n[2] % 256>>

\* LittleEndian::write_u32 (lib.rs:79) of <<high 16 bits, low 16 bits>>
WriteU32LE(n) == <<n[2] % 256, n[2] \div 256, n[1] % 256, n[1] \div 256>>

Preamble == <<86, 66, 65, 78>>      \* b"VBAN"

\* impl Into<[u8; 28]> for VBanHeader (lib.rs:69-83)
EncodeHeader(h) ==
    h.preamble \o <<h.sample_rate, h.num_samples, h.num_channels, h.sample_format>>
        \o h.stream_name \o WriteU32LE(h.nu_frame)

\* impl From<[u8; 28]> for VBanHeader (lib.rs:51-67)
DecodeHeader(item) ==
    [preamble |-> SubSeq(item, 1, 4),
     sample_rate |-> item[5],
     num_samples |-> item[6],
     num_channels |-> item[7],
     sample_format |-> item[8],
     stream_name |-> SubSeq(item, 9, 24),
     nu_frame |-> U32Zero]

\* the VBanHeader a sender's handle() builds (vban_sender.rs:202-210,
\* vban_sender_pw.rs:194-202) from its fields and the locals num_samples, format
SenderHeader(sr, num_samples, numch, format, name, nu_frame) ==
    [preamble |-> Preamble,
     sample_rate |-> SampleRateIntoU8(sr),
     num_samples |-> num_samples,
     num_channels |-> numch - 1,
     sample_format |-> format,
     stream_name |-> name,
     nu_frame |-> nu_frame]

Name16 == [i \in 1..VBAN_STREAM_NAME_SIZE |-> 96 + i]    \* a name of 16 bytes

\* headers: the one of the default alsa sender's first datagram, and others
Headers ==
    { SenderHeader(sr, ns, ch, fmt, nm, nu) :
        sr \in {3, 20}, ns \in {255, 239}, ch \in {2}, fmt \in {1, 193},
        nm \in {PadName(Stream1), Name16},
        nu \in {U32Zero, <<0, 1>>, <<258, 772>>, U32Max} }

SampleRateBytes == 0..40

HeaderNotCalled == [called |-> FALSE, bytes |-> <<>>, back |-> <<>>]
RateNotCalled == [called |-> FALSE, rate |-> 0, hz |-> 0, back |-> 0, index |-> 0]
CreateNotCalled ==
    [called |-> FALSE, result |-> "", name |-> <<>>, wire |-> <<>>, payload |-> 0]
WriteNotCalled ==
    [calls |-> 0, n |-> 0, events |-> <<>>, written |-> 0, returned |-> TRUE,
     before |-> <<>>]
\* a PipewireSource whose worker has captured nothing, read by nobody
PwParked ==
    [bytes |-> 0, captured |-> 0, chan |-> <<>>, sent |-> <<>>, remainder |-> <<>>,
     returned |-> <<>>, data |-> <<>>, reads |-> 0]
NoCreateArgs ==
    [kind |-> "pw", format |-> VbanBitfmt16Int, name |-> None, numch |-> 2, sr |-> 3,
     codec |-> "pcm", bind |-> TRUE, source |-> TRUE]

\* no library function is called
LibParked ==
    /\ c_args = NoCreateArgs
    /\ c_out = CreateNotCalled
    /\ h_in = SenderHeader(3, 255, 2, 1, PadName(Stream1), U32Zero)
    /\ h_out = HeaderNotCalled
    /\ sr_in = 0
    /\ sr_out = RateNotCalled
    /\ w_out = WriteNotCalled
    /\ pw = PwParked

\* h_in is encoded, and the bytes decoded
HeaderRoundTrip ==
    /\ ~h_out.called
    /\ h_out' = [called |-> TRUE, bytes |-> EncodeHeader(h_in),
                 back |-> DecodeHeader(EncodeHeader(h_in))]
    /\ UNCHANGED <<h_in, sr_in, sr_out, c_args, c_out, w_out, pw, overflow_checks, rvars,
                   prev_path, svars>>

\* sr_in: u8 -> VBanSampleRates -> u32 -> VBanSampleRates -> u8; a conversion
\* that panics ends the chain, the later results are then Panics too
RateRoundTrip ==
    /\ ~sr_out.called
    /\ LET rate == SampleRateFromU8(sr_in)
           hz == IF rate = Panics THEN Panics ELSE SampleRateIntoU32(rate)
           back == IF rate = Panics THEN Panics ELSE SampleRateFromU32(hz)
           index == IF rate = Panics THEN Panics ELSE SampleRateIntoU8(back)
       IN  sr_out' = [called |-> TRUE, rate |-> rate, hz |-> hz, back |-> back,
                      index |-> index]
    /\ UNCHANGED <<h_in, h_out, sr_in, c_args, c_out, w_out, pw, overflow_checks, rvars,
                   prev_path, svars>>

LibInit ==
    /\ overflow_checks \in BOOLEAN /\ RecipientParked /\ SenderParked
    /\ c_args = NoCreateArgs
    /\ c_out = CreateNotCalled
    /\ h_in \in Headers
    /\ h_out = HeaderNotCalled
    /\ sr_in \in SampleRateBytes
    /\ sr_out = RateNotCalled
    /\ w_out = WriteNotCalled
    /\ pw = PwParked

LibNext == HeaderRoundTrip \/ RateRoundTrip

LibSpec == LibInit /\ [][LibNext]_vars

(***************************************************************************)
(* AlsaSink::write (lib.rs:547-571).  env is what the device does in this  *)
(* call: the result of the first writei, of recover, and of the second     *)
(* writei.  io_i16() checks that the device's sample format is s16, which  *)
(* AlsaSink::init has set (lib.rs:493), so its unwrap() passes.  The       *)
(* result: the calls made on the device in order, the samples the device   *)
(* took, and whether write returned.                                       *)
(***************************************************************************)
Ev(call, ok) == [call |-> call, ok |-> ok]

\* mutant: the write is repeated whether or not the recovery succeeded
AlsaSinkWrite_AlwaysRetry(n, env) ==
    IF env.first THEN [events |-> <<Ev("writei", TRUE)>>, written |-> n, returned |-> TRUE]
    ELSE [events |-> <<Ev("writei", FALSE), Ev("recover", env.recover),
                       Ev("writei", env.second)>>,
          written |-> IF env.second THEN n ELSE 0, returned |-> TRUE]

AlsaSinkWrite(n, env) ==
    IF env.first THEN [events |-> <<Ev("writei", TRUE)>>, written |-> n, returned |-> TRUE]
    ELSE IF ~env.recover
    THEN [events |-> <<Ev("writei", FALSE), Ev("recover", FALSE)>>, written |-> 0,
          returned |-> TRUE]
    ELSE [events |-> <<Ev("writei", FALSE), Ev("recover", TRUE), Ev("writei", env.second)>>,
          written |-> IF env.second THEN n ELSE 0, returned |-> TRUE]

WriteEnvs == [first : BOOLEAN, recover : BOOLEAN, second : BOOLEAN]

\* the blocks handle() writes: the silence before a stream and the samples of
\* a packet
WriteSizes == {0, 480, 512, 960}

\* one call of write on an open sink
SinkWrite ==
    /\ w_out.returned
    /\ w_out.calls < MaxWrites
    /\ \E n \in WriteSizes, env \in WriteEnvs :
         LET w == AlsaSinkWrite(n, env)
         IN  w_out' = [calls |-> w_out.calls + 1, n |-> n, events |-> w.events,
                       written |-> w.written, returned |-> w.returned,
                       before |-> w_out.events]
    /\ UNCHANGED <<c_args, c_out, h_in, h_out, sr_in, sr_out, pw, overflow_checks, rvars,
                   prev_path, svars>>

WriteInit == overflow_checks \in BOOLEAN /\ RecipientParked /\ SenderParked /\ LibParked

WriteNext == SinkWrite

WriteSpec == WriteInit /\ [][WriteNext]_vars

(***************************************************************************)
(* PipewireSource (lib.rs:658-806).  The bytes the backend captures are    *)
(* numbered 1, 2, 3, .. in capture order.  A Vec<u8> of captured bytes is  *)
(* the sequence of the runs of consecutive bytes it holds, each run        *)
(* [lo, hi]; two vectors are equal iff they hold the same bytes in the     *)
(* same order.                                                             *)
(***************************************************************************)
Iv(lo, hi) == [lo |-> lo, hi |-> hi]

\* v.len()
RECURSIVE LenB(_)
LenB(v) == IF v = <<>> THEN 0 ELSE v[1].hi - v[1].lo + 1 + LenB(Tail(v))

\* a.append(b)
CatB(a, b) ==
    IF a = <<>> THEN b
    ELSE IF b = <<>> THEN a
    ELSE IF a[Len(a)].hi + 1 = b[1].lo
    THEN SubSeq(a, 1, Len(a) - 1) \o <<Iv(a[Len(a)].lo, b[1].hi)>> \o Tail(b)
    ELSE a \o b

\* v[..n]
RECURSIVE TakeB(_, _)
TakeB(v, n) ==
    IF n = 0 \/ v = <<>> THEN <<>>
    ELSE IF LenB(<<v[1]>>) <= n THEN <<v[1]>> \o TakeB(Tail(v), n - LenB(<<v[1]>>))
    ELSE <<Iv(v[1].lo, v[1].lo + n - 1)>>

\* v[n..]
RECURSIVE DropB(_, _)
DropB(v, n) ==
    IF n = 0 \/ v = <<>> THEN v
    ELSE IF LenB(<<v[1]>>) <= n THEN DropB(Tail(v), n - LenB(<<v[1]>>))
    ELSE <<Iv(v[1].lo + n, v[1].hi)>> \o Tail(v)

\* the chunks of the process callback (lib.rs:741)
PW_CHUNK == 256

\* the process callback (lib.rs:728-746) for a dequeued buffer holding the
\* captured bytes start+1 .. start+size: the chunks it sends, in order
ProcessSends(start, size) ==
    [i \in 1..(size \div PW_CHUNK) |->
        <<Iv(start + (i - 1) * PW_CHUNK + 1, start + i * PW_CHUNK)>>]

\* all chunks of a channel, appended in order
RECURSIVE Flat(_)
Flat(chan) == IF chan = <<>> THEN <<>> ELSE CatB(chan[1], Flat(Tail(chan)))

\* the loop `while data.len() < bytes` (lib.rs:785-787)
RECURSIVE Fill(_, _, _)
Fill(data, chan, bytes) ==
    IF LenB(data) < bytes THEN Fill(CatB(data, chan[1]), Tail(chan), bytes)
    ELSE [data |-> data, chan |-> chan]

\* mutant: what is left over of the last chunk is not kept
PipewireRead_NoRemainder(remainder, chan, bytes) ==
    LET start == IF remainder # <<>> THEN [data |-> remainder, chan |-> chan]
                 ELSE [data |-> chan[1], chan |-> Tail(chan)]
        full == Fill(start.data, start.chan, bytes)
    IN  [data |-> TakeB(full.data, bytes), chan |-> full.chan, remainder |-> <<>>]

\* PipewireSource::read (lib.rs:771-805) for a buffer of bytes/2 samples, with
\* the chunks it needs on the channel: the bytes it returns, what it leaves
\* on the channel and in the remainder
PipewireRead(remainder, chan, bytes) ==
    LET start == IF remainder # <<>> THEN [data |-> remainder, chan |-> chan]
                 ELSE [data |-> chan[1], chan |-> Tail(chan)]
        full == Fill(start.data, start.chan, bytes)
    IN  [data |-> TakeB(full.data, bytes), chan |-> full.chan,
         remainder |-> IF LenB(full.data) > bytes THEN DropB(full.data, bytes) ELSE <<>>]

\* the sizes of the buffers the backend hands to the callback
PwBufferSizes == {256, 300, 1024}

\* buf.len() * 2 for the buffers handle() reads (vban_sender_pw.rs:155-161):
\* PCM, Opus with two channels, Opus with one
PwReadSizes ==
    { 2 * AudioInLen([opus |-> o, numch |-> n]) : o \in BOOLEAN, n \in {1, 2} }

\* the process callback runs for one more buffer
PwProcess ==
    /\ \E size \in PwBufferSizes :
         /\ pw.captured + size <= MaxCaptured
         /\ pw' = [pw EXCEPT
                !.captured = pw.captured + size,
                !.chan = pw.chan \o ProcessSends(pw.captured, size),
                !.sent = CatB(pw.sent, Flat(ProcessSends(pw.captured, size)))]
    /\ UNCHANGED <<c_args, c_out, h_in, h_out, sr_in, sr_out, w_out, overflow_checks,
                   rvars, prev_path, svars>>

\* read() returns; until the channel holds the chunks it needs, recv() blocks
PwRead ==
    /\ (pw.remainder # <<>> \/ pw.chan # <<>>)
    /\ LenB(pw.remainder) + LenB(Flat(pw.chan)) >= pw.bytes
    /\ LET r == PipewireRead(pw.remainder, pw.chan, pw.bytes)
       IN  pw' = [pw EXCEPT !.chan = r.chan, !.remainder = r.remainder,
                            !.data = r.data, !.returned = CatB(pw.returned, r.data),
                            !.reads = pw.reads + 1]
    /\ UNCHANGED <<c_args, c_out, h_in, h_out, sr_in, sr_out, w_out, overflow_checks,
                   rvars, prev_path, svars>>

PwInit ==
    /\ overflow_checks \in BOOLEAN /\ RecipientParked /\ SenderParked
    /\ c_args = NoCreateArgs
    /\ c_out = CreateNotCalled
    /\ h_in = SenderHeader(3, 255, 2, 1, PadName(Stream1), U32Zero)
    /\ h_out = HeaderNotCalled
    /\ sr_in = 0
    /\ sr_out = RateNotCalled
    /\ w_out = WriteNotCalled
    /\ \E b \in PwReadSizes : pw = [PwParked EXCEPT !.bytes = b]

PwNext == PwProcess \/ PwRead

PwSpec == PwInit /\ [][PwNext]_vars

(***************************************************************************)
(* VbanSender::create, applied to arguments drawn in the initial state.    *)
(* name is the stream_name argument (None only for the alsa sender, whose  *)
(* argument is an Option), format a bit-resolution code, sr the position   *)
(* of the VBanSampleRates value, codec "pcm", "opus" or "other"; bind and  *)
(* source say whether the socket binds and the capture backend is there.   *)
(***************************************************************************)
\* the name field after the copy loop: the alsa sender reads 16 bytes of a custom
\* name (vban_sender.rs:74-78), which Panics (<<Panics>>) on a shorter one; the
\* pipewire sender copies the name into zeros (vban_sender_pw.rs:67-68)
SenderName(kind, name) ==
    IF kind = "pw" THEN PadName(Unwrap(name))
    ELSE IF name = None THEN PadName(Stream1)
    ELSE IF Len(Unwrap(name)) < VBAN_STREAM_NAME_SIZE THEN <<Panics>>
    ELSE SubSeq(Unwrap(name), 1, VBAN_STREAM_NAME_SIZE)

\* VbanSender::create (vban_sender.rs:53-141, vban_sender_pw.rs:55-147)
SenderCreate(a) ==
    LET ret(res, nm) ==
            [called |-> TRUE, result |-> res, name |-> nm, wire |-> <<>>, payload |-> 0]
        name == SenderName(a.kind, a.name)
    IN  IF a.format # VbanBitfmt16Int THEN ret("none", <<>>)
        ELSE IF a.name # None /\ Len(Unwrap(a.name)) > VBAN_STREAM_NAME_SIZE
        THEN ret("none", <<>>)
        ELSE IF name = <<Panics>> THEN ret("panic", <<>>)
        ELSE IF a.codec = "other" THEN ret("none", <<>>)
        ELSE IF a.codec = "opus" /\ a.numch \notin {1, 2} THEN ret("none", <<>>)
        ELSE IF a.codec = "opus" /\ a.kind = "pw" /\ a.sr \notin OpusEncoderRates("pw")
        THEN ret("none", <<>>)
        \* Encoder::new(..).expect("Could not create encoder!")
        ELSE IF a.codec = "opus" /\ a.kind = "alsa" /\ a.sr \notin OpusEncoderRates("alsa")
        THEN ret("panic", <<>>)
        \* PipewireSource::init (lib.rs:666-683) has no path that returns None; the
        \* alsa sender opens its source in handle()
        ELSE IF ~a.bind THEN ret("none", <<>>)
        ELSE ret("sender", name)

CreateArgs ==
    { a \in [kind : {"alsa", "pw"}, format : {0, VbanBitfmt16Int},
             name : {None, Some(<<>>), Some(Music), Some(Name16), Some(TooLongName)},
             numch : {0, 1, 2, 3}, sr : {3, 8, 16, SampleRateNotSupported},
             codec : {"pcm", "opus", "other"}, bind : BOOLEAN, source : BOOLEAN] :
        a.kind = "pw" => a.name # None }

\* the tag a sender ors into the format byte for Opus: the pipewire sender's is
\* Into<u8> for VBanCodec (lib.rs:436), 0xC0; the alsa sender's is the cast
\* `VBanCodec::VbanCodecOpus as u8` (vban_sender.rs:198), the variant's position
\* in an enum without explicit discriminants, or 0xC0 in one that has them
OpusTags(kind) == IF kind = "pw" THEN {VbanCodecOpus} ELSE {VbanCodecOpus, 12}

\* a | b on bytes
RECURSIVE BitOr(_, _)
BitOr(a, b) ==
    IF a = 0 THEN b
    ELSE IF b = 0 THEN a
    ELSE 2 * BitOr(a \div 2, b \div 2) + (IF a % 2 = 1 \/ b % 2 = 1 THEN 1 ELSE 0)

\* create is called
CreateSender ==
    /\ ~c_out.called
    /\ c_out' = SenderCreate(c_args)
    /\ UNCHANGED <<c_args, h_in, h_out, sr_in, sr_out, w_out, pw, overflow_checks, rvars,
                   prev_path, svars>>

\* the header of the first datagram of the sender that create returned and the
\* length of its payload, for a sender whose handle() gets as far as the header
\* (vban_sender.rs:173-212); enc is what the Opus encoder returns
EmitHeader ==
    /\ c_out.called /\ c_out.result = "sender" /\ c_out.wire = <<>>
    /\ c_args.numch # 0 /\ SampleRateIntoU8(c_args.sr) # Panics
    /\ \E tag \in OpusTags(c_args.kind), enc \in {0, 200} :
         LET cfg == [kind |-> c_args.kind, numch |-> c_args.numch, sr |-> c_args.sr,
                     opus |-> (c_args.codec = "opus")]
             num_samples == ((AudioInLen(cfg) \div cfg.numch) - 1) % 256
             format == IF cfg.opus THEN BitOr(c_args.format, tag) ELSE c_args.format
         IN  c_out' = [c_out EXCEPT
                 !.wire = EncodeHeader(SenderHeader(cfg.sr, num_samples, cfg.numch,
                                                    format, c_out.name, U32Zero)),
                 !.payload = EncodedLen(cfg, enc)]
    /\ UNCHANGED <<c_args, h_in, h_out, sr_in, sr_out, w_out, pw, overflow_checks, rvars,
                   prev_path, svars>>

CreateInit ==
    /\ overflow_checks \in BOOLEAN /\ RecipientParked /\ SenderParked
    /\ c_args \in CreateArgs
    /\ c_out = CreateNotCalled
    /\ h_in = SenderHeader(3, 255, 2, 1, PadName(Stream1), U32Zero)
    /\ h_out = HeaderNotCalled
    /\ sr_in = 0
    /\ sr_out = RateNotCalled
    /\ w_out = WriteNotCalled
    /\ pw = PwParked

CreateNext == CreateSender \/ EmitHeader

CreateSpec == CreateInit /\ [][CreateNext]_vars

SenderSpecInit == overflow_checks \in BOOLEAN /\ RecipientParked /\ SenderInit /\ LibParked

SenderNext == SenderStep

SenderSpec == SenderSpecInit /\ [][SenderNext]_vars

Init == overflow_checks \in BOOLEAN /\ RecipientInit /\ SenderParked /\ LibParked

Next == HandlePacket \/ HandleRecvTimeout \/ SetCommand

Spec == Init /\ [][Next]_vars


\* The recipient with fewer kinds of datagram, for liveness.  The handle() loop of
\* src/bin/vban_sink.rs:142-144 keeps calling handle(), and time passes: a receive
\* that meets no datagram times out, again and again.
LiveArrivals ==
    { [p |-> BasePacket, d |-> 0, dev |-> "ok"],
      [p |-> BasePacket, d |-> 1, dev |-> "ok"],
      [p |-> BasePacket, d |-> 0, dev |-> "fail"],
      [p |-> [BasePacket EXCEPT !.name = NameStream1], d |-> 1, dev |-> "ok"],
      [p |-> [BasePacket EXCEPT !.fmt = 0], d |-> 0, dev |-> "ok"],
      [p |-> [BasePacket EXCEPT !.len = 20], d |-> 0, dev |-> "ok"] }

HandleLive == HandleFrom(LiveArrivals)

LiveNext == HandleLive \/ HandleRecvTimeout \/ SetCommand

LiveSpec == Init /\ [][LiveNext]_vars /\ WF_vars(HandleRecvTimeout)

\* datagrams no sender of this repository sends: a sample-rate index beyond
\* VBAN_SRLIST, every bit-resolution code, an Opus payload the decoder
\* refuses or an empty one, more bytes than the receive buffer holds, and
\* channel bytes beyond what a sender's u8 channel count minus one can be
MalformedPackets ==
       { [BasePacket EXCEPT !.sr = i] : i \in {21, 31} }
    \cup { [BasePacket EXCEPT !.fmt = f] : f \in 0..VBAN_BIT_RESOLUTION_MASK }
    \cup { [BaseOpus EXCEPT !.opus = "bad"],
           [BaseOpus EXCEPT !.len = VBAN_PACKET_HEADER_BYTES + VBAN_PACKET_COUNTER_BYTES] }
    \cup { [BasePacket EXCEPT !.len = VBAN_PACKET_MAX_LEN_BYTES + extra] : extra \in {1, 536} }
    \cup { [BasePacket EXCEPT !.ch = c] : c \in {7, 255} }

MalformedArrivals ==
    { [p |-> p, d |-> d, dev |-> "ok"] :
          p \in MalformedPackets \cup {BaseOpus}, d \in {0, 1} }

HandleMalformed == HandleFrom(MalformedArrivals)

MalformedNext == HandleMalformed \/ HandleRecvTimeout \/ SetCommand

MalformedSpec == Init /\ [][MalformedNext]_vars

\* datagrams handle() drops at its checks: the serial sub-protocol (0x20), the
\* VBCA codec (0x10), 8-bit samples, no preamble, another stream's name
DropPackets ==
    { [BasePacket EXCEPT !.sr = 35], [BasePacket EXCEPT !.fmt = 17],
      [BasePacket EXCEPT !.fmt = 0], [BasePacket EXCEPT !.preamble = FALSE],
      [BasePacket EXCEPT !.name = NameStream1] }

DropArrivals ==
    { [p |-> p, d |-> d, dev |-> "ok"] : p \in DropPackets \cup {BasePacket}, d \in {0, 1} }

HandleDrop == HandleFrom(DropArrivals)

DropNext == HandleDrop \/ HandleRecvTimeout

DropSpec == Init /\ [][DropNext]_vars

\* Opus streams of one, two and three channels at 48000 Hz and at 44100 Hz, a
\* rate Decoder::new refuses, next to a PCM stream
OpusPackets ==
    { [BaseOpus EXCEPT !.sr = r, !.ch = c] : r \in {3, 16}, c \in {0, 1, 2} }

OpusArrivals ==
    { [p |-> p, d |-> d, dev |-> "ok"] : p \in OpusPackets \cup {BasePacket}, d \in {0, 1} }

\* handle() calls, each keeping how the call before it ended
HandleOpus == HandleAny(OpusArrivals) /\ prev_path' = out.path

OpusRecvTimeout == RecvTimedOut /\ prev_path' = out.path

OpusNext == HandleOpus \/ OpusRecvTimeout

OpusSpec == Init /\ [][OpusNext]_vars

\* the datagram the sender's last handle() call sent (vban_sender.rs:191-232,
\* vban_sender_pw.rs:184-226), for a sender created with the name Music; tag is
\* what the sender ors into the format byte for Opus
SentPacket(cfg, len, tag) ==
    [len |-> len, preamble |-> TRUE, sr |-> SampleRateIntoU8(cfg.sr),
     ns |-> ((AudioInLen(cfg) \div cfg.numch) - 1) % 256, ch |-> cfg.numch - 1,
     fmt |-> IF cfg.opus THEN BitOr(VbanBitfmt16Int, tag) ELSE VbanBitfmt16Int,
     name |-> NameMusic, opus |-> "ok"]

\* a recipient's handle() receives the datagram the sender has just sent
Deliver ==
    /\ s_out.sent > 0
    /\ \E tag \in OpusTags(s_cfg.kind), d \in {0, 1} :
          HandleFrom({[p |-> SentPacket(s_cfg, s_out.len, tag), d |-> d, dev |-> "ok"]})

LinkInit ==
    /\ overflow_checks \in BOOLEAN /\ RecipientInit /\ SenderInit /\ LibParked
    /\ s_nu_frame = U32Zero
    /\ stream_name = None
    /\ sample_rate = None

LinkNext == SenderStep \/ Deliver

\* a sender as create() leaves it and a recipient without stream-name filter and
\* sample-rate hint, the sender's datagrams reaching the recipient
LinkSpec == LinkInit /\ [][LinkNext]_vars

(***************************************************************************)
(* Claims about the recipient.                                             *)
(***************************************************************************)
Secs(n) == n * TicksPerSec
Received == out.calls = 1 /\ out.pkt.len >= 0
HasOp(name) == \E i \in 1..Len(out.ops) : out.ops[i].op = name
CountOp(name) == Cardinality({i \in 1..Len(out.ops) : out.ops[i].op = name})
PktRate(p) == VBAN_SRLIST[LowBits(p.sr, VBAN_SR_MASK) + 1]

\* C1: between handle() calls a sink is bound if and only if the state is Playing
C1_SinkIffPlaying == alive => ((sink # None) <=> (state = "Playing"))

\* C1 witness: a call went from Playing to Idle and released the sink
C1_Witness ==
    alive /\ out.entryState = "Playing" /\ out.fired /\ state = "Idle" /\ sink = None

\* C2: every handle() call returns normally, whatever datagram it received
C2_HandleAlwaysReturns == out.result = "returned"

\* C3: a handle() call entered in Playing more than 2 s after the last valid
\* packet runs the timeout branch (sink released, playback_stopped, Idle)
C3_TimeoutAfterTwoSeconds ==
    (out.calls = 1 /\ out.entryState = "Playing"
        /\ out.entryElapsed > Secs(IDLE_TIMEOUT_SECS))
    => out.fired

OpNames == [i \in 1..Len(out.ops) |-> out.ops[i].op]
RunsIfCommand(name) == CountOp(name) = (IF out.hadCommand THEN 1 ELSE 0)

\* C5, liveness: unless valid packets keep being accepted for ever, the recipient
\* ends up Idle for good (or the engine has ended)
C5_EventuallyIdle ==
    \/ []<><<HandleLive /\ out'.accepted>>_vars
    \/ <>[](state = "Idle" \/ ~alive)

\* C5, the transition to Idle: the sink is released and playback_stopped is run
\* exactly once, and is run by no other call
C5_StoppedOnce ==
    /\ out.fired => /\ RunsIfCommand("playback_stopped")
                    /\ CountOp("release") = 1
                    /\ ~out.accepted => (state = "Idle" /\ sink = None)
    /\ ~out.fired => CountOp("playback_stopped") = 0

\* C5, the packet after it: a valid packet accepted in Idle runs playback_started
\* exactly once and the state is Playing again
C5_StartedOnce ==
    (out.accepted /\ (out.entryState = "Idle" \/ out.fired) /\ out.result = "returned")
    => (RunsIfCommand("playback_started") /\ state = "Playing" /\ sink # None)

\* C5: a Playing recipient that gets no further valid packet goes Idle, releasing
\* the sink and running playback_stopped exactly once; a valid packet after that
\* runs playback_started exactly once and makes it Playing again
C5_IdleTimeoutLiveness ==
    C5_EventuallyIdle /\ [](C5_StoppedOnce /\ C5_StartedOnce)

\* C5 witness: after start, stop by timeout, a valid packet started playback again
C5_Witness ==
    /\ out.accepted /\ out.entryState = "Idle" /\ out.hadCommand /\ state = "Playing"
    /\ command = Some(<<"playback_stopped", "playback_started">>)

\* C6: with a stream-name filter, a packet whose header name differs from the
\* zero-padded filter is not rendered and does not start playback; a well-formed
\* packet whose name equals the filter is accepted
C6_StreamNameFilter ==
    (Received /\ stream_name # None) =>
        /\ HeadName(out.pkt) # Unwrap(stream_name) =>
              /\ ~out.accepted
              /\ ~HasOp("write") /\ ~HasOp("open") /\ ~HasOp("playback_started")
              /\ (state = "Idle" \/ (out.entryState = "Playing" /\ ~out.fired))
        /\ (HeadName(out.pkt) = Unwrap(stream_name) /\ out.pkt \in WellFormedPackets)
              => out.accepted

\* C6 witness: a packet was dropped whose name differs from the filter in its
\* last byte only
C6_Witness ==
    /\ Received /\ stream_name = Some(PadName(Music)) /\ out.pkt.name = NameMusicTail
    /\ out.result = "returned" /\ ~out.accepted /\ out.entryState = "Idle"

\* C7: a valid packet with another sample rate, received while Playing, makes
\* handle() drain the sink, reopen it at the new rate and the packet's channel
\* count and write the samples there; the state stays Playing, no command is run
C7_RateChange ==
    (/\ out.accepted /\ out.entryState = "Playing" /\ ~out.fired
     /\ out.entryRate # Some(LowBits(out.pkt.sr, VBAN_SR_MASK))
     /\ out.result = "returned")
    => /\ OpNames = <<"drain", "open", "write">>
       /\ out.ops[2] = Op("open", PktRate(out.pkt), out.pkt.ch + 1)
       /\ sink = Some([rate |-> PktRate(out.pkt), channels |-> out.pkt.ch + 1])
       /\ sample_rate = Some(LowBits(out.pkt.sr, VBAN_SR_MASK))
       /\ state = "Playing"

\* C7 witness: a stream switched from 48000 Hz to 44100 Hz
C7_Witness ==
    /\ out.accepted /\ out.entryState = "Playing" /\ ~out.fired
    /\ out.entryRate = Some(3) /\ out.pkt.sr = 16 /\ out.result = "returned"
    /\ out.hadCommand

\* C8: a packet accepted in Idle opens the sink at its rate and channel count,
\* writes the silence prefix, runs playback_started once, makes the state Playing
\* and writes the samples; no other call takes the state from Idle to Playing
C8_IdleToPlaying ==
    /\ (out.accepted /\ out.entryState = "Idle" /\ out.result = "returned")
       => /\ OpNames = IF out.hadCommand
                       THEN <<"open", "silence", "playback_started", "write">>
                       ELSE <<"open", "silence", "write">>
          /\ out.ops[1] = Op("open", PktRate(out.pkt), out.pkt.ch + 1)
          /\ sink = Some([rate |-> PktRate(out.pkt), channels |-> out.pkt.ch + 1])
          /\ state = "Playing"
    /\ (out.calls = 1 /\ ~out.accepted)
       => (state = "Idle" \/ (out.entryState = "Playing" /\ ~out.fired))

\* C8 witness: playback started from Idle with a command configured
C8_Witness ==
    /\ out.accepted /\ out.entryState = "Idle" /\ out.result = "returned"
    /\ out.hadCommand /\ state = "Playing"


(***************************************************************************)
(* Claims about the senders.                                               *)
(***************************************************************************)
\* C9: a handle() call that reaches the send step puts (n + k) mod 2^32 in the
\* header, k being the number of earlier calls that reached it, and leaves the
\* counter incremented by 1 mod 2^32, whatever encode, connect and send did and
\* also from 2^32-1 to 0
C9_FrameCounterAdvances ==
    s_out.step = "send" =>
        /\ s_out.counter = U32Add(s_start, s_out.sends)
        /\ s_out.result = "returned"
        /\ s_nu_frame = U32Add(s_out.counter, 1)

\* C10 as stated: a handle() call emits at most one datagram, and the frame
\* counters of the datagrams emitted are strictly increasing
C10_StrictlyIncreasing ==
    /\ s_out.sent <= 1
    /\ (s_prev # None /\ s_last # None) => U32Less(Unwrap(s_prev), Unwrap(s_last))

\* C10 as amended: a handle() call emits at most one datagram, and the frame
\* counters of the datagrams emitted are strictly increasing for as long as the
\* counter has not passed 2^32-1
C10_IncreasingUntilWrap ==
    /\ s_out.sent <= 1
    /\ (s_prev # None /\ s_last # None /\ ~U32Carries(s_start, s_sends - 1))
          => U32Less(Unwrap(s_prev), Unwrap(s_last))

\* C10 witness: two datagrams were emitted with a failed send between them
C10_Witness ==
    /\ s_prev # None /\ s_last # None
    /\ Unwrap(s_last) = U32Add(Unwrap(s_prev), 2)
    /\ s_out.sent = 1


\* C11: every datagram a sender emits is at most 1464 bytes long, header
\* included; a frame whose packet would be longer is not sent, and no sender
\* that create() yields ever builds such a frame
C11_DatagramLength ==
    /\ s_out.sent > 0 => s_out.len <= VBAN_PROTOCOL_MAX_SIZE
    /\ s_out.len > VBAN_PROTOCOL_MAX_SIZE => s_out.sent = 0
    /\ s_out.step # "too_long"

\* C11 witness: a PCM sender with three channels emitted its datagram, the
\* longest one a sender builds
C11_Witness ==
    /\ s_out.sent = 1 /\ ~s_cfg.opus /\ s_cfg.numch = 3
    /\ s_out.len = VBAN_HEADER_SIZE + VBAN_PACKET_COUNTER_BYTES + 2 * 2 * VBAN_PACKET_MAX_SAMPLES


(***************************************************************************)
(* Claims about the library's conversions.                                 *)
(***************************************************************************)
\* C14: decoding the 28 bytes that encode a header gives the header back, in
\* every field, the frame counter included
C14_HeaderRoundTrip == h_out.called => h_out.back = h_in

\* C15: for an index i in 0..20, index -> VBanSampleRates -> u32 gives entry i
\* of the table 6000, 12000, ..., 705600 (which is VBAN_SRLIST), and
\* u32 -> VBanSampleRates -> u8 gives i back
C15_RateRoundTrip ==
    (sr_out.called /\ sr_in \in 0..20) =>
        /\ sr_out.hz = <<6000, 12000, 24000, 48000, 96000, 192000, 384000,
                         8000, 16000, 32000, 64000, 128000, 256000, 512000,
                         11025, 22050, 44100, 88200, 176400, 352800, 705600>>[sr_in + 1]
        /\ sr_out.hz = VBAN_SRLIST[sr_in + 1]
        /\ sr_out.index = sr_in

\* C15 witness: index 16 went to 44100 Hz and back
C15_Witness ==
    sr_out.called /\ sr_in = 16 /\ sr_out.hz = 44100 /\ sr_out.index = 16

\* the header of the claim's example
ExampleHeader ==
    [preamble |-> <<86, 66, 65, 78>>, sample_rate |-> 3, num_samples |-> 255,
     num_channels |-> 1, sample_format |-> 1,
     stream_name |-> <<83, 116, 114, 101, 97, 109, 49, 0, 0, 0, 0, 0, 0, 0, 0, 0>>,
     nu_frame |-> <<0, 0>>]

\* C16: the 28 bytes of a header are the preamble, the sample-rate byte, the
\* sample count, the channel count, the format byte, the 16 name bytes and the
\* frame counter, least significant byte first; the example header encodes to
\* 56 42 41 4E 03 FF 01 01 53 74 72 65 61 6D 31 and thirteen zero bytes
C16_HeaderEncoding ==
    h_out.called =>
        LET b == h_out.bytes
        IN  /\ Len(b) = 28
            /\ SubSeq(b, 1, 4) = h_in.preamble
            /\ b[5] = h_in.sample_rate
            /\ b[6] = h_in.num_samples
            /\ b[7] = h_in.num_channels
            /\ b[8] = h_in.sample_format
            /\ SubSeq(b, 9, 24) = h_in.stream_name
            /\ \A i \in 25..28 : b[i] \in 0..255
            /\ b[25] + 256 * b[26] = h_in.nu_frame[2]
            /\ b[27] + 256 * b[28] = h_in.nu_frame[1]
            /\ h_in = ExampleHeader =>
                  b = <<86, 66, 65, 78, 3, 255, 1, 1, 83, 116, 114, 101, 97, 109, 49,
                        0, 0, 0, 0, 0, 0, 0, 0, 0, 0, 0, 0, 0>>

\* C16 witness: a header with frame counter 0x01020304 was encoded
C16_Witness ==
    /\ h_out.called /\ h_in.nu_frame = <<258, 772>>
    /\ SubSeq(h_out.bytes, 25, 28) = <<4, 3, 2, 1>>


(***************************************************************************)
(* Claims about VbanSender::create.                                        *)
(***************************************************************************)
NameGiven == c_args.name # None /\ Len(Unwrap(c_args.name)) <= VBAN_STREAM_NAME_SIZE

\* the cases in which the spec has create return none
CreateMustFail ==
    \/ c_args.format # VbanBitfmt16Int
    \/ c_args.name # None /\ Len(Unwrap(c_args.name)) > VBAN_STREAM_NAME_SIZE
    \/ c_args.codec = "opus" /\ c_args.numch \notin {1, 2}
    \/ c_args.codec = "opus" /\ SampleRateIntoU32(c_args.sr) \notin {12000, 24000, 48000}
    \/ ~c_args.bind
    \/ ~c_args.source

\* C12: create returns None, and does not panic, in each of the listed cases,
\* and returns a sender in every other case
C12_CreateOutcome ==
    c_out.called => c_out.result = (IF CreateMustFail THEN "none" ELSE "sender")

\* C13: create succeeds for every stream name of 0..16 bytes (the other
\* arguments being acceptable), and the header the sender emits carries the name
\* followed by zero bytes in its 16 name bytes
C13_NamePadding ==
    /\ (c_out.called /\ NameGiven /\ ~CreateMustFail /\ c_args.codec # "other")
          => (c_out.result = "sender" /\ c_out.name = PadName(Unwrap(c_args.name)))
    /\ (c_out.wire # <<>> /\ NameGiven)
          => (Len(c_out.wire) = 28
              /\ SubSeq(c_out.wire, 9, 24) = PadName(Unwrap(c_args.name)))

(***************************************************************************)
(* Claims about malformed datagrams                                        *)
(***************************************************************************)

\* the last handle() call returned, wrote nothing to a sink, opened none and
\* left the state as the timeout branch had it
Dropped ==
    /\ out.result = "returned"
    /\ alive
    /\ ~out.accepted
    /\ ~HasOp("write")
    /\ ~HasOp("open")
    /\ (out.fired \/ state = out.entryState)

\* C17: a received audio packet whose sample-rate index is in 21..31 is
\* dropped: handle() returns without a sink write or a state transition and
\* the recipient goes on with the next packet
C17_InvalidRateDropped ==
    (Received /\ out.pkt.preamble /\ LowBits(out.pkt.sr, VBAN_SR_MASK) > 20) => Dropped

\* C18: a received packet whose bit-resolution code is 0, 2, 3, 4, 5, 6 or 7
\* is dropped: handle() returns without a sink write or a state transition
C18_BitResolutionDropped ==
    (Received /\ out.pkt.preamble /\ BitResolutionFromU8(out.pkt.fmt) # VbanBitfmt16Int)
        => Dropped

\* C19: an Opus packet whose payload the decoder refuses, or whose payload is
\* empty, is dropped: handle() returns without a sink write or a state
\* transition
C19_OpusFailureDropped ==
    (/\ Received
     /\ out.pkt.preamble
     /\ CodecFromU8(out.pkt.fmt) = VbanCodecOpus
     /\ \/ out.pkt.opus # "ok"
        \/ RecvSize(out.pkt) = VBAN_PACKET_HEADER_BYTES + VBAN_PACKET_COUNTER_BYTES)
        => Dropped

\* C20: a datagram longer than 1464 bytes is dropped: none of its bytes are
\* written to the sink and it causes no state transition
C20_OversizedDropped ==
    (Received /\ out.pkt.len > VBAN_PACKET_MAX_LEN_BYTES) => Dropped

(***************************************************************************)
(* Claims about the external command                                       *)
(***************************************************************************)

IsRun(o) == o.op \in {"playback_started", "playback_stopped"}

\* C21: every invocation of the configured command passes exactly one
\* argument, playback_started on Idle->Playing and playback_stopped on
\* Playing->Idle
C21_OneArgument ==
    \A i \in 1..Len(out.ops) :
        IsRun(out.ops[i]) =>
            /\ out.ops[i].a = 1
            /\ out.ops[i].op = "playback_stopped" => (out.fired /\ out.entryState = "Playing")
            /\ out.ops[i].op = "playback_started" => state = "Playing"

(***************************************************************************)
(* Claims about the datagrams of a sender                                  *)
(***************************************************************************)

Emitted == c_out.wire # <<>>

\* C22: for every channel count create accepts, a PCM packet carries 255 in
\* its sample-count byte and 2 x 256 x num_channels payload bytes, an Opus
\* packet carries 239, and the channel byte is num_channels - 1
C22_BlockSize ==
    Emitted =>
        /\ c_out.wire[7] = c_args.numch - 1
        /\ c_args.codec = "opus" => c_out.wire[6] = 239
        /\ c_args.codec = "pcm" =>
              /\ c_out.wire[6] = 255
              /\ c_out.payload = 2 * 256 * c_args.numch
              /\ c_out.payload = 2 * (c_out.wire[6] + 1) * (c_out.wire[7] + 1)

\* C23: every packet of an Opus sender has byte 7 = 0xC1 and every packet of
\* a PCM sender has byte 7 = 0x01, and the recipient's classification of that
\* byte (From<u8> for VBanCodec) is Opus for the former and PCM for the latter
C23_CodecTag ==
    Emitted =>
        /\ c_out.wire[8] = (IF c_args.codec = "opus" THEN 193 ELSE 1)
        /\ (CodecFromU8(c_out.wire[8]) = VbanCodecOpus) <=> (c_args.codec = "opus")
        /\ (CodecFromU8(c_out.wire[8]) = VbanCodecPcm) <=> (c_args.codec = "pcm")

(***************************************************************************)
(* Claims about what the recipient renders                                 *)
(***************************************************************************)

\* the sample count of the last write of the call
Written == out.ops[Len(out.ops)].a

\* C24: for every accepted packet the number of samples written to the sink
\* is (num_samples_wire + 1) x num_channels, for PCM and for Opus, mono and
\* stereo
C24_SamplesRendered ==
    (Received /\ HasOp("write")) => Written = (out.pkt.ns + 1) * (out.pkt.ch + 1)

\* the last call accepted a packet while Idle and no sink was opened for it
OpenFailed ==
    /\ Received
    /\ out.accepted
    /\ (out.entryState = "Idle" \/ out.fired)
    /\ ~HasOp("open")

\* C25: if opening the sink fails when a valid packet arrives in Idle,
\* handle() returns with the state still Idle, no sink bound and no
\* playback_started run, and the recipient is there for the next packet
C25_OpenFailureReturns ==
    OpenFailed =>
        /\ out.result = "returned"
        /\ alive
        /\ state = "Idle"
        /\ sink = None
        /\ ~HasOp("playback_started")

(***************************************************************************)
(* Claims about the Opus decoder                                           *)
(***************************************************************************)

IsOpus(p) == CodecFromU8(p.fmt) = VbanCodecOpus

\* the packet passes every check of handle() before the decode step
Valid(p) ==
    /\ p.preamble
    /\ RecvSize(p) >= VBAN_PACKET_HEADER_BYTES + VBAN_PACKET_COUNTER_BYTES
    /\ ProtocolFromU8(p.sr) = VbanProtocolAudio
    /\ CodecFromU8(p.fmt) \in {VbanCodecPcm, VbanCodecOpus}
    /\ BitResolutionFromU8(p.fmt) = VbanBitfmt16Int
    /\ SampleRateFromU8(p.sr) # Panics
    /\ IsUtf8(p.name)
    /\ NameAccepted(stream_name, p.name)

\* the decoder Decoder::new makes for the packet, if it makes one
Constructible(p) == PktRate(p) \in OpusRates /\ p.ch + 1 \in {1, 2}
DecoderFor(p) == Some([rate |-> PktRate(p), channels |-> p.ch + 1])

\* C26: no decoder exists until an Opus packet has passed validation; a
\* decoder, once constructed, is never replaced; a failed construction drops
\* the packet and leaves the decoder absent; and while the decoder is absent
\* every valid Opus packet attempts the construction
C26_DecoderLifecycle ==
    [][/\ decoder # None => decoder' = decoder
       /\ (decoder = None /\ decoder' # None) =>
              (Received' /\ IsOpus(out'.pkt) /\ Valid(out'.pkt) /\ decoder' = DecoderFor(out'.pkt))
       /\ out'.path = "drop_decoder_new" => (decoder' = None /\ Dropped')
       /\ (decoder = None /\ Received' /\ IsOpus(out'.pkt) /\ Valid(out'.pkt)) =>
              IF Constructible(out'.pkt) THEN decoder' = DecoderFor(out'.pkt)
              ELSE decoder' = None /\ Dropped'
      ]_vars

\* a decoder made for one packet has decoded a packet with other parameters
C26_Witness ==
    /\ Received /\ IsOpus(out.pkt) /\ HasOp("write")
    /\ decoder # None /\ decoder # DecoderFor(out.pkt)

\* the call before the last one failed to construct a decoder, and the state
\* has been Playing since
AfterFailure == prev_path = "drop_decoder_new" /\ out.entryState = "Playing" /\ ~out.fired

\* C27: after a failed decoder construction the recipient constructs no
\* decoder and renders no Opus packet until its state has returned to Idle
C27_FailureIsTerminal ==
    AfterFailure => (decoder = None /\ ~(Received /\ IsOpus(out.pkt) /\ HasOp("write")))

\* C27 as the code has it: the Opus packet that follows a failed construction
\* constructs the decoder if it is valid and its rate and channel count are
\* ones Decoder::new accepts, whatever the state, and is rendered
C27_RetryAfterFailure ==
    (prev_path = "drop_decoder_new" /\ Received /\ IsOpus(out.pkt) /\ Valid(out.pkt)
        /\ Constructible(out.pkt))
        => (decoder = DecoderFor(out.pkt) /\ HasOp("write") /\ state = "Playing")

C27_Witness ==
    /\ AfterFailure
    /\ Received /\ IsOpus(out.pkt) /\ Constructible(out.pkt)
    /\ decoder = DecoderFor(out.pkt) /\ HasOp("write")

\* C28: on every Idle->Playing transition the block of zero samples written
\* before the audio has exactly floor(rate x silence_ms / 1000) samples
C28_SilencePrefix ==
    \A i \in 1..Len(out.ops) :
        out.ops[i].op = "silence" =>
            /\ Received /\ state = "Playing" /\ HasOp("write")
            /\ out.ops[i].a = (PktRate(out.pkt) * silence) \div 1000

\* C29: for every channel byte 0..255 of an otherwise valid packet the
\* recipient accepts the packet and negotiates the channel count byte + 1, 256
\* for the byte 255
C29_ChannelRange ==
    (Received /\ Valid(out.pkt) /\ ~IsOpus(out.pkt))
        => (out.accepted /\ num_channels = Some(out.pkt.ch + 1))

(***************************************************************************)
(* Claims about AlsaSink::write                                            *)
(***************************************************************************)

CountEv(evs, call) == Cardinality({i \in 1..Len(evs) : evs[i].call = call})

\* C30: one write call makes at most two write attempts and at most one
\* recovery attempt; the second write attempt follows a failed first attempt
\* and a successful recovery; after a failed recovery or a failed second
\* attempt the block is dropped and write returns, so that write can be called
\* again after any outcome
C30_WriteRecovery ==
    w_out.calls > 0 =>
        /\ CountEv(w_out.events, "writei") \in {1, 2}
        /\ CountEv(w_out.events, "recover") <= 1
        /\ CountEv(w_out.events, "writei") = 2 =>
              /\ Len(w_out.events) = 3
              /\ w_out.events[1] = Ev("writei", FALSE)
              /\ w_out.events[2] = Ev("recover", TRUE)
        /\ w_out.events[1] = Ev("writei", FALSE) => CountEv(w_out.events, "recover") = 1
        /\ ~w_out.events[Len(w_out.events)].ok => w_out.written = 0
        /\ w_out.events[Len(w_out.events)] = Ev("writei", TRUE) => w_out.written = w_out.n
        /\ w_out.returned
        /\ w_out.calls < MaxWrites => ENABLED SinkWrite

\* a block is written at the second attempt, in a call that follows one whose
\* recovery failed
C30_Witness ==
    /\ w_out.calls > 1
    /\ w_out.before = <<Ev("writei", FALSE), Ev("recover", FALSE)>>
    /\ w_out.events = <<Ev("writei", FALSE), Ev("recover", TRUE), Ev("writei", TRUE)>>
    /\ w_out.written = w_out.n /\ w_out.n > 0

(***************************************************************************)
(* Claims about the capture sources                                        *)
(***************************************************************************)

\* the last handle() call of the sender had a source and its backend failed
\* while it was read: the alsa sender opens its source in the first call, the
\* pipewire sender has one from create() on
ReadFailed ==
    /\ s_calls > 0
    /\ s_out.dev = "fail"
    /\ (s_cfg.kind = "pw" \/ s_out.entryState = "Playing")

\* C31: when the capture backend fails, read() returns instead of panicking,
\* and handle() goes on with its cycle
C31_ReadFailureReturns ==
    ReadFailed => ~(s_out.result = "panicked" /\ s_out.step = "source_read")

\* the bytes sent on the channel and not taken off it
Received_Pw == TakeB(pw.sent, LenB(pw.sent) - LenB(Flat(pw.chan)))

\* C32: the bytes returned by successive read() calls are, in order, a prefix
\* of the bytes of the chunks in send order; each read() returns the number of
\* bytes asked for; and the remainder holds the bytes received and not yet
\* returned
C32_ConsumerOrdering ==
    /\ pw.returned = TakeB(pw.sent, LenB(pw.returned))
    /\ pw.reads > 0 => LenB(pw.data) = pw.bytes
    /\ LenB(pw.returned) = pw.reads * pw.bytes
    /\ CatB(pw.returned, pw.remainder) = Received_Pw

\* the second read of 960 bytes began with the 64 bytes the first had left
\* over, took four more chunks and left 128 bytes over
C32_Witness ==
    /\ pw.reads = 2
    /\ pw.bytes = 960
    /\ pw.data = <<Iv(961, 1920)>>
    /\ pw.remainder = <<Iv(1921, 2048)>>

\* C40: all bytes of every buffer the process callback dequeues are sent on
\* the channel in order, so the bytes the engine reads are the bytes captured
C40_NoBytesLost ==
    /\ pw.sent = (IF pw.captured = 0 THEN <<>> ELSE <<Iv(1, pw.captured)>>)
    /\ pw.returned = (IF pw.reads = 0 THEN <<>> ELSE <<Iv(1, LenB(pw.returned))>>)

(***************************************************************************)
(* Claims about a sender and a recipient together                          *)
(***************************************************************************)

\* C33: every datagram a sender's handle() emits, the 28-byte datagram after
\* an Opus encode error included, is rendered or dropped by a recipient's
\* handle(), which returns
C33_RecipientSurvives ==
    Received => (out.result = "returned" /\ alive)

\* C34: whenever the recipient decodes an Opus packet, the decoder it uses
\* was constructed for that packet's sample rate and channel count
C34_DecoderMatchesStream ==
    (Received /\ IsOpus(out.pkt) /\ Valid(out.pkt)
        /\ out.path \notin {"drop_opus_channels", "drop_decoder_new"})
        => decoder = DecoderFor(out.pkt)

\* C35: whenever the recipient writes a packet's samples to the sink, the sink
\* was opened with that packet's sample rate and channel count
C35_SinkMatchesStream ==
    (Received /\ HasOp("write"))
        => sink = Some([rate |-> PktRate(out.pkt), channels |-> out.pkt.ch + 1])

\* the last call dropped its packet at one of the checks before the decode step
DroppedAt == {"not_vban", "drop_samples", "drop_protocol", "drop_codec", "drop_bits",
              "drop_channels", "drop_name"}

\* C36: a dropped packet (bad preamble, non-audio sub-protocol, unsupported
\* codec or bit resolution, stream-name mismatch) does not reset the
\* last-packet timestamp; a Playing recipient whose timeout has expired goes
\* Idle in the call that receives such a packet; only a packet that passed
\* validation and decoding resets the timestamp
C36_DropsKeepTimer ==
    /\ (Received /\ out.path \in DroppedAt) =>
          /\ out.result = "returned" /\ ~out.accepted
          /\ elapsed >= out.entryElapsed
          /\ TimeoutExpired(out.entryState, out.entryElapsed) => state = "Idle"
    /\ (Received /\ elapsed < out.entryElapsed) =>
          /\ out.accepted /\ Valid(out.pkt)
          /\ out.path \notin DroppedAt

\* a Playing recipient went Idle in a call that dropped a packet of the serial
\* sub-protocol, its timer not set anew
C36_Witness ==
    /\ Received /\ out.path = "drop_protocol"
    /\ out.entryState = "Playing" /\ out.fired /\ state = "Idle"
    /\ elapsed >= out.entryElapsed /\ out.entryElapsed > 0

\* C37: a handle() call that drops its packet at a validation step leaves the
\* negotiated sample rate, channel count and bit resolution, the state, the
\* sink and the decoder exactly as they were before the call.
C37_DropsChangeNothing ==
    [][ (Received' /\ out'.path \in (DroppedAt \ {"not_vban"})) =>
            /\ sample_rate' = sample_rate
            /\ num_channels' = num_channels
            /\ sample_format' = sample_format
            /\ state' = state
            /\ sink' = sink
            /\ decoder' = decoder ]_vars

Runs == SelectSeq(out.ops, IsRun)

\* C38: with a command configured, a handle() call that leaves the state as
\* it was invokes the command not at all, and a call that changes the state
\* invokes it once, with the one event of the new state (playback_started
\* for Playing, playback_stopped for Idle), so that the invocations of an
\* execution alternate, beginning with playback_started.
C38_HookAlternation ==
    (out.calls = 1 /\ out.hadCommand /\ out.result = "returned") =>
        /\ out.entryState = state => Runs = <<>>
        /\ out.entryState # state =>
              /\ Len(Runs) = 1
              /\ Runs[1].a = 1
              /\ Runs[1].op = IF state = "Playing" THEN "playback_started"
                              ELSE "playback_stopped"

\* C39: no handle() call of a created sender panics in the arithmetic of the
\* header: not in the division by the channel count, not in num_channels - 1,
\* not in the conversion of the sample rate to its index.
C39_CreatedSenderRuns ==
    s_calls > 0 => s_out.step \notin {"divide_by_zero", "sample_rate"}

=============================================================================
